---- MODULE Spec2Model ----
(***************************************************************************)
(* Model of the zenoh-orbcomm node (experiments/zenoh-orbcomm server), the *)
(* key scheme (orb_actions.rs) and the command dispatcher.                 *)
(*                                                                         *)
(* Rust strings are modelled as sequences of one-character strings, so     *)
(* that format!, ends_with, trim and exact matching are computed the way   *)
(* the code computes them.                                                 *)
(***************************************************************************)
EXTENDS Integers, Sequences, FiniteSets, TLC

\* ------------------------------------------------------------------------
\* String literals of the source
\* ------------------------------------------------------------------------

\* "orb/"
Str_orb_prefix ==
    <<"o", "r", "b", "/">>

\* "name"
Str_name ==
    <<"n", "a", "m", "e">>

\* "id"
Str_id ==
    <<"i", "d">>

\* "hardware_version"
Str_hardware_version ==
    <<"h", "a", "r", "d", "w", "a", "r", "e", "_", "v", "e", "r", "s", "i", "o", "n">>

\* "reboot"
Str_reboot ==
    <<"r", "e", "b", "o", "o", "t">>

\* "shutdown"
Str_shutdown ==
    <<"s", "h", "u", "t", "d", "o", "w", "n">>

\* "reset_gimbal"
Str_reset_gimbal ==
    <<"r", "e", "s", "e", "t", "_", "g", "i", "m", "b", "a", "l">>

\* "/"
Str_slash ==
    <<"/">>

\* "/command/"
Str_command_seg ==
    <<"/", "c", "o", "m", "m", "a", "n", "d", "/">>

\* "*"
Str_star ==
    <<"*">>

\* "orb/id"
Str_discovery ==
    <<"o", "r", "b", "/", "i", "d">>

\* "shutdown now"
Str_shutdown_now ==
    <<"s", "h", "u", "t", "d", "o", "w", "n", " ", "n", "o", "w">>

\* "sudo reboot"
Str_sudo_reboot ==
    <<"s", "u", "d", "o", " ", "r", "e", "b", "o", "o", "t">>

\* "Reset gimbal command executed successfully"
Str_reset_ok ==
    <<"R", "e", "s", "e", "t", " ", "g", "i", "m", "b", "a", "l", " ", "c", "o", "m", "m", "a", "n", "d", " ", "e", "x", "e", "c", "u", "t", "e", "d", " ", "s", "u", "c", "c", "e", "s", "s", "f", "u", "l", "l", "y">>

\* "Error: Unknown command '"
Str_unknown_command ==
    <<"E", "r", "r", "o", "r", ":", " ", "U", "n", "k", "n", "o", "w", "n", " ", "c", "o", "m", "m", "a", "n", "d", " ", "'">>

\* "'"
Str_quote ==
    <<"'">>

\* "Error: no such resource"
Str_no_such_resource ==
    <<"E", "r", "r", "o", "r", ":", " ", "n", "o", " ", "s", "u", "c", "h", " ", "r", "e", "s", "o", "u", "r", "c", "e">>

\* "UnknownOrb"
Str_UnknownOrb ==
    <<"U", "n", "k", "n", "o", "w", "n", "O", "r", "b">>

\* "DevOrb"
Str_DevOrb ==
    <<"D", "e", "v", "O", "r", "b">>

\* "UnknownHWVersion"
Str_UnknownHWVersion ==
    <<"U", "n", "k", "n", "o", "w", "n", "H", "W", "V", "e", "r", "s", "i", "o", "n">>

\* ------------------------------------------------------------------------
\* Bounds of the model
\* ------------------------------------------------------------------------

\* Number of discovery publishes after which the 1-second timer stops firing.
MaxPublished == 2

\* ------------------------------------------------------------------------
\* Helpers: Result values and string functions of the Rust standard library
\* ------------------------------------------------------------------------

Ok(v) == [ok |-> TRUE, val |-> v]

Err(e) == [ok |-> FALSE, val |-> e]

\* str::ends_with
ends_with(s, suffix) ==
    /\ Len(s) >= Len(suffix)
    /\ SubSeq(s, Len(s) - Len(suffix) + 1, Len(s)) = suffix

IsWhitespace(c) == c \in {" ", "\n", "\t"}

RECURSIVE trim_start(_)
trim_start(s) ==
    IF s /= <<>> /\ IsWhitespace(Head(s)) THEN trim_start(Tail(s)) ELSE s

RECURSIVE trim_end(_)
trim_end(s) ==
    IF s /= <<>> /\ IsWhitespace(s[Len(s)])
    THEN trim_end(SubSeq(s, 1, Len(s) - 1))
    ELSE s

\* str::trim
trim(s) == trim_end(trim_start(s))

\* ------------------------------------------------------------------------
\* Key scheme (orb_actions.rs)
\* ------------------------------------------------------------------------

QueryKinds == {"Name", "Id", "HardwareVersion"}

CommandKinds == {"Reboot", "Shutdown", "ResetGimbal"}

\* impl FromStr for Query
Query_from_str(s) ==
    IF s = Str_name THEN Ok("Name")
    ELSE IF s = Str_id THEN Ok("Id")
    ELSE IF s = Str_hardware_version THEN Ok("HardwareVersion")
    ELSE Err("unit")

\* Query::to_key with the template of Name copied to Id.
Query_to_key_copied(q, id) ==
    CASE q = "Name" -> Str_orb_prefix \o id \o Str_slash \o Str_name
      [] q = "Id" -> Str_orb_prefix \o id \o Str_slash \o Str_name
      [] q = "HardwareVersion" ->
            Str_orb_prefix \o id \o Str_slash \o Str_hardware_version

\* Query::to_key
Query_to_key(q, id) ==
    CASE q = "Name" -> Str_orb_prefix \o id \o Str_slash \o Str_name
      [] q = "Id" -> Str_orb_prefix \o id \o Str_slash \o Str_id
      [] q = "HardwareVersion" ->
            Str_orb_prefix \o id \o Str_slash \o Str_hardware_version

\* Command::from_str with the input trimmed before the match.
Command_from_str_trimmed(s) ==
    IF trim(s) = Str_reboot THEN Ok("Reboot")
    ELSE IF trim(s) = Str_shutdown THEN Ok("Shutdown")
    ELSE IF trim(s) = Str_reset_gimbal THEN Ok("ResetGimbal")
    ELSE Err("unit")

\* impl FromStr for Command
Command_from_str(s) ==
    IF s = Str_reboot THEN Ok("Reboot")
    ELSE IF s = Str_shutdown THEN Ok("Shutdown")
    ELSE IF s = Str_reset_gimbal THEN Ok("ResetGimbal")
    ELSE Err("unit")

\* Command::to_key
Command_to_key(c, id) ==
    CASE c = "Reboot" -> Str_orb_prefix \o id \o Str_command_seg \o Str_reboot
      [] c = "Shutdown" -> Str_orb_prefix \o id \o Str_command_seg \o Str_shutdown
      [] c = "ResetGimbal" ->
            Str_orb_prefix \o id \o Str_command_seg \o Str_reset_gimbal

\* ------------------------------------------------------------------------
\* Node helpers (experiments/zenoh-orbcomm/src/bin/server.rs)
\* ------------------------------------------------------------------------

\* What `sh -c <command>` can do: run and exit with success, run and exit with
\* a non-success status, or fail to run at all.
ShellOutputs(stdouts) ==
    [kind : {"success"}, stdout : stdouts]
        \cup {[kind |-> "status", stdout |-> <<>>],
              [kind |-> "spawn_error", stdout |-> <<>>]}

\* get_orb_property with the error of a command that cannot be run returned
\* to the caller.
get_orb_property_propagating(output, default) ==
    IF output.kind = "success" THEN Ok(trim(output.stdout))
    ELSE IF output.kind = "status" THEN Ok(default)
    ELSE Err(<<"Failed to execute command">>)

\* get_orb_property: the trimmed stdout on success, the default otherwise;
\* always Ok.
get_orb_property(output, default) ==
    IF output.kind = "success" THEN Ok(trim(output.stdout)) ELSE Ok(default)

\* run_shell_command: the stdout on success, an error otherwise.
run_shell_command(command, output) ==
    IF output.kind = "success" THEN Ok(output.stdout)
    ELSE IF output.kind = "status" THEN Err(<<"failed with status", command>>)
    ELSE Err(<<"Failed to execute command", command>>)

\* The registry built by main: HashMap from key to value.  Later inserts
\* overwrite earlier ones.
HashMap_insert(m, k, v) ==
    [x \in DOMAIN m \cup {k} |-> IF x = k THEN v ELSE m[x]]

EmptyMap == [x \in {} |-> <<>>]

\* build_orb_data with the values of Name and HardwareVersion exchanged.
build_orb_data_exchanged(id, name, hw) ==
    HashMap_insert(
        HashMap_insert(
            HashMap_insert(EmptyMap, Query_to_key("Id", id), id),
            Query_to_key("Name", id), hw),
        Query_to_key("HardwareVersion", id), name)

build_orb_data(id, name, hw) ==
    HashMap_insert(
        HashMap_insert(
            HashMap_insert(EmptyMap, Query_to_key("Id", id), id),
            Query_to_key("Name", id), name),
        Query_to_key("HardwareVersion", id), hw)

\* Body of the loop of handle_queries: the reply to a query on `key`.
handle_queries_reply(data, key) ==
    IF key \in DOMAIN data THEN [key |-> key, payload |-> data[key]]
    ELSE [key |-> key, payload |-> Str_no_such_resource]

\* handle_commands with the shell commands of the first two branches
\* exchanged.
handle_commands_body_exchanged(key, output) ==
    IF ends_with(key, Str_shutdown)
    THEN [shell |-> <<Str_sudo_reboot>>,
          response |-> run_shell_command(Str_sudo_reboot, output)]
    ELSE IF ends_with(key, Str_reboot)
    THEN [shell |-> <<Str_shutdown_now>>,
          response |-> run_shell_command(Str_shutdown_now, output)]
    ELSE IF ends_with(key, Str_reset_gimbal)
    THEN [shell |-> <<>>, response |-> Ok(Str_reset_ok)]
    ELSE [shell |-> <<>>,
          response |-> Ok(Str_unknown_command \o key \o Str_quote)]

\* Body of the loop of handle_commands for one received message: the shell
\* commands it runs and the value of `response` before the `?`.
handle_commands_body(key, output) ==
    IF ends_with(key, Str_shutdown)
    THEN [shell |-> <<Str_shutdown_now>>,
          response |-> run_shell_command(Str_shutdown_now, output)]
    ELSE IF ends_with(key, Str_reboot)
    THEN [shell |-> <<Str_sudo_reboot>>,
          response |-> run_shell_command(Str_sudo_reboot, output)]
    ELSE IF ends_with(key, Str_reset_gimbal)
    THEN [shell |-> <<>>, response |-> Ok(Str_reset_ok)]
    ELSE [shell |-> <<>>,
          response |-> Ok(Str_unknown_command \o key \o Str_quote)]

\* ------------------------------------------------------------------------
\* Inputs of the node
\* ------------------------------------------------------------------------

\* What the property provider can print for each property.
IdStdouts == {<<"a", "\n">>, <<" ", "b">>}

NameStdouts == {<<"n", "\n">>}

HwStdouts == {<<"h">>}

\* Final chunks of the keys the transport delivers to the command
\* subscriber, which is declared on orb/{id}/command/*.
CommandChunks ==
    {Str_reboot, Str_shutdown, Str_reset_gimbal,
     <<"x">> \o Str_reboot, <<"n", "o", "_">> \o Str_shutdown,
     <<"R", "E", "B", "O", "O", "T">>, <<"r", "e", "b", "o", "o">>,
     <<"f", "o", "o">>}

\* Key expressions of the queries the transport delivers to the queryable
\* declared on `key`: the key itself and wildcard expressions that include it.
QueryKeyExprs(key, id) ==
    {key,
     Str_orb_prefix \o id \o Str_slash \o Str_star,
     Str_orb_prefix \o Str_star \o Str_star}

NoCommand == [key |-> <<>>, shell |-> <<>>, response |-> Ok(<<>>)]

NoQuery == [responder |-> <<>>, key |-> <<>>, payload |-> <<>>]

\* ------------------------------------------------------------------------
\* State of the node
\* ------------------------------------------------------------------------

VARIABLES
    mainPc,               \* position of main
    mainResult,           \* "none", or what main returned: "ok" / "err"
    orb_id, orb_name, orb_hw_version,
    orb_data,             \* the registry
    queryables,           \* keys with a declared queryable and a spawned responder
    command_subscriber,   \* <<>> or the key expression subscribed to
    discovery_publisher,  \* <<>> or the key the publisher is declared on
    shutdown_tx,          \* sender of the oneshot: "none", "held", "sent", "dropped"
    broadcastPc,          \* broadcast_orb_id: "none", "select", "put", "exited"
    timerReady,           \* the sleep of the current select has elapsed
    published,            \* number of publishes observed on the discovery topic
    selected,             \* branch of main's select that completed: "none", "ctrl_c", "commands"
    commandsResult,       \* handle_commands: "none", "running", "ok", "err"
    ctrl_c_requested,     \* a process-level termination request has occurred
    lastCommand,          \* what the dispatcher did with the last message
    lastQuery,            \* what a responder replied to the last query
    respondersEnded,      \* keys whose handle_queries task has returned
    lastPut               \* result of the broadcaster's last put: "none", "ok", "err"

nodeVars ==
    <<mainPc, mainResult, orb_id, orb_name, orb_hw_version, orb_data,
      queryables, command_subscriber, discovery_publisher, shutdown_tx,
      broadcastPc, timerReady, published, selected, commandsResult,
      ctrl_c_requested, lastCommand, lastQuery, respondersEnded, lastPut>>

\* State of the key-scheme runs: a token given to the parsers and two
\* (action kind, node id) pairs given to to_key.
VARIABLES
    ksPc,        \* "input", "parsed", "done"
    ksToken,     \* the string given to Query::from_str and Command::from_str
    ksParsed,    \* the results of the two parsers
    ksParsedKey, \* to_key of the parsed kind for the id of ksA, or <<>>
    ksA, ksB,    \* two pairs [kind, id]
    ksKeyA, ksKeyB

keyVars ==
    <<ksPc, ksToken, ksParsed, ksParsedKey, ksA, ksB, ksKeyA, ksKeyB>>

\* State of the client (experiments/zenoh-orbcomm/src/bin/client.rs).
VARIABLES
    clPc,         \* position of the client's main
    clArgs,       \* the parsed command line: [cmd, id, type]
    clKey,        \* the key computed by to_key, or <<>>
    clOps,        \* the calls made on the transport, in order
    clOutput,     \* the lines printed, in order, each with its time
    clResult,     \* "none", or how main ended: "ok", "err", "panic"
    clNow,        \* time elapsed since the collection loop started, in ticks
    clWaitStart,  \* time at which the current timeout(..) started
    clClosed,     \* recv_async has returned Err: the channel is closed
    clReceived,   \* what recv_async has delivered, in order
    orb_ids,      \* the Vec of discover_orbs
    clLastAt,     \* time of the last reply to a query (of the get, before any)
    clDoneAt      \* time at which the collection loop ended

clientVars ==
    <<clPc, clArgs, clKey, clOps, clOutput, clResult, clNow, clWaitStart,
      clClosed, clReceived, orb_ids, clLastAt, clDoneAt>>

\* State of the property-retrieval runs (main, lines 22-24).
VARIABLES
    propPc,       \* "get_id", "get_name", "get_hw", "started", "aborted"
    propOutputs,  \* what the provider does for each of the three properties
    propValues    \* the values main has bound so far

propVars == <<propPc, propOutputs, propValues>>

vars == <<nodeVars, keyVars, clientVars, propVars>>

KeyIdle ==
    /\ ksPc = "idle"
    /\ ksToken = <<>>
    /\ ksParsed = <<>>
    /\ ksParsedKey = <<>>
    /\ ksA = <<>>
    /\ ksB = <<>>
    /\ ksKeyA = <<>>
    /\ ksKeyB = <<>>

ClientIdle ==
    /\ clPc = "idle"
    /\ clArgs = <<>>
    /\ clKey = <<>>
    /\ clOps = <<>>
    /\ clOutput = <<>>
    /\ clResult = "none"
    /\ clNow = 0
    /\ clWaitStart = 0
    /\ clClosed = FALSE
    /\ clReceived = <<>>
    /\ orb_ids = <<>>
    /\ clLastAt = 0
    /\ clDoneAt = 0

PropIdle ==
    /\ propPc = "idle"
    /\ propOutputs = <<>>
    /\ propValues = <<>>

\* The node before main has run.
NodeIdle ==
    /\ mainPc = "idle"
    /\ mainResult = "none"
    /\ orb_id = <<>>
    /\ orb_name = <<>>
    /\ orb_hw_version = <<>>
    /\ orb_data = EmptyMap
    /\ queryables = {}
    /\ command_subscriber = <<>>
    /\ discovery_publisher = <<>>
    /\ shutdown_tx = "none"
    /\ broadcastPc = "none"
    /\ timerReady = FALSE
    /\ published = 0
    /\ selected = "none"
    /\ commandsResult = "none"
    /\ ctrl_c_requested = FALSE
    /\ lastCommand = NoCommand
    /\ lastQuery = NoQuery
    /\ respondersEnded = {}
    /\ lastPut = "none"

NodeInit ==
    /\ mainPc = "get_id"
    /\ mainResult = "none"
    /\ orb_id = <<>>
    /\ orb_name = <<>>
    /\ orb_hw_version = <<>>
    /\ orb_data = EmptyMap
    /\ queryables = {}
    /\ command_subscriber = <<>>
    /\ discovery_publisher = <<>>
    /\ shutdown_tx = "none"
    /\ broadcastPc = "none"
    /\ timerReady = FALSE
    /\ published = 0
    /\ selected = "none"
    /\ commandsResult = "none"
    /\ ctrl_c_requested = FALSE
    /\ lastCommand = NoCommand
    /\ lastQuery = NoQuery
    /\ respondersEnded = {}
    /\ lastPut = "none"

Init == NodeInit /\ KeyIdle /\ ClientIdle /\ PropIdle

\* ------------------------------------------------------------------------
\* main: startup
\* ------------------------------------------------------------------------

\* let orb_id = get_orb_property("orb-id", "UnknownOrb")?;
GetOrbId ==
    /\ mainPc = "get_id"
    /\ \E output \in ShellOutputs(IdStdouts) :
          orb_id' = get_orb_property(output, Str_UnknownOrb).val
    /\ mainPc' = "get_name"
    /\ UNCHANGED <<keyVars, clientVars, propVars, respondersEnded, lastPut,
                   mainResult, orb_name, orb_hw_version, orb_data, queryables,
                   command_subscriber, discovery_publisher, shutdown_tx,
                   broadcastPc, timerReady, published, selected,
                   commandsResult, ctrl_c_requested, lastCommand, lastQuery>>

\* let orb_name = get_orb_property("cat /usr/persistent/orb-name", "DevOrb")?;
GetOrbName ==
    /\ mainPc = "get_name"
    /\ \E output \in ShellOutputs(NameStdouts) :
          orb_name' = get_orb_property(output, Str_DevOrb).val
    /\ mainPc' = "get_hw"
    /\ UNCHANGED <<keyVars, clientVars, propVars, respondersEnded, lastPut,
                   mainResult, orb_id, orb_hw_version, orb_data, queryables,
                   command_subscriber, discovery_publisher, shutdown_tx,
                   broadcastPc, timerReady, published, selected,
                   commandsResult, ctrl_c_requested, lastCommand, lastQuery>>

\* let orb_hw_version = get_orb_property("cat .../hardware_version", ...)?;
GetOrbHwVersion ==
    /\ mainPc = "get_hw"
    /\ \E output \in ShellOutputs(HwStdouts) :
          orb_hw_version' = get_orb_property(output, Str_UnknownHWVersion).val
    /\ mainPc' = "open_session"
    /\ UNCHANGED <<keyVars, clientVars, propVars, respondersEnded, lastPut,
                   mainResult, orb_id, orb_name, orb_data, queryables,
                   command_subscriber, discovery_publisher, shutdown_tx,
                   broadcastPc, timerReady, published, selected,
                   commandsResult, ctrl_c_requested, lastCommand, lastQuery>>

\* zenoh::open(..).await.map_err(..)?  followed, on success, by the three
\* inserts into orb_data.
OpenSession ==
    /\ mainPc = "open_session"
    /\ \E ok \in BOOLEAN :
          IF ok
          THEN /\ orb_data' = build_orb_data(orb_id, orb_name, orb_hw_version)
               /\ mainPc' = "declare_queryables"
               /\ UNCHANGED mainResult
          ELSE /\ mainPc' = "returned"
               /\ mainResult' = "err"
               /\ UNCHANGED orb_data
    /\ UNCHANGED <<keyVars, clientVars, propVars, respondersEnded, lastPut,
                   orb_id, orb_name, orb_hw_version, queryables,
                   command_subscriber, discovery_publisher, shutdown_tx,
                   broadcastPc, timerReady, published, selected,
                   commandsResult, ctrl_c_requested, lastCommand, lastQuery>>

\* One iteration of `for key in orb_data.keys()`: declare the queryable and
\* spawn handle_queries, or return the error.  HashMap iteration order is
\* unspecified.
DeclareQueryable ==
    /\ mainPc = "declare_queryables"
    /\ queryables /= DOMAIN orb_data
    /\ \E key \in DOMAIN orb_data \ queryables, ok \in BOOLEAN :
          IF ok
          THEN /\ queryables' = queryables \cup {key}
               /\ UNCHANGED <<mainPc, mainResult>>
          ELSE /\ mainPc' = "returned"
               /\ mainResult' = "err"
               /\ UNCHANGED queryables
    /\ UNCHANGED <<keyVars, clientVars, propVars, respondersEnded, lastPut,
                   orb_id, orb_name, orb_hw_version, orb_data,
                   command_subscriber, discovery_publisher, shutdown_tx,
                   broadcastPc, timerReady, published, selected,
                   commandsResult, ctrl_c_requested, lastCommand, lastQuery>>

\* The subscriber declared while the loop over orb_data.keys() is still
\* running.
DeclareSubscriber_BeforeLoopEnd ==
    /\ mainPc = "declare_queryables"
    /\ \E ok \in BOOLEAN :
          IF ok
          THEN /\ command_subscriber' =
                     Str_orb_prefix \o orb_id \o Str_command_seg \o Str_star
               /\ mainPc' = "declare_publisher"
               /\ UNCHANGED mainResult
          ELSE /\ mainPc' = "returned"
               /\ mainResult' = "err"
               /\ UNCHANGED command_subscriber
    /\ UNCHANGED <<keyVars, clientVars, propVars, respondersEnded, lastPut,
                   orb_id, orb_name, orb_hw_version, orb_data, queryables,
                   discovery_publisher, shutdown_tx,
                   broadcastPc, timerReady, published, selected,
                   commandsResult, ctrl_c_requested, lastCommand, lastQuery>>

\* session.declare_subscriber(&format!("orb/{}/command/*", orb_id))
DeclareSubscriber ==
    /\ mainPc = "declare_queryables"
    /\ queryables = DOMAIN orb_data
    /\ \E ok \in BOOLEAN :
          IF ok
          THEN /\ command_subscriber' =
                     Str_orb_prefix \o orb_id \o Str_command_seg \o Str_star
               /\ mainPc' = "declare_publisher"
               /\ UNCHANGED mainResult
          ELSE /\ mainPc' = "returned"
               /\ mainResult' = "err"
               /\ UNCHANGED command_subscriber
    /\ UNCHANGED <<keyVars, clientVars, propVars, respondersEnded, lastPut,
                   orb_id, orb_name, orb_hw_version, orb_data, queryables,
                   discovery_publisher, shutdown_tx,
                   broadcastPc, timerReady, published, selected,
                   commandsResult, ctrl_c_requested, lastCommand, lastQuery>>

\* oneshot::channel() and session.declare_publisher("orb/id")
DeclarePublisher ==
    /\ mainPc = "declare_publisher"
    /\ \E ok \in BOOLEAN :
          IF ok
          THEN /\ discovery_publisher' = Str_discovery
               /\ shutdown_tx' = "held"
               /\ mainPc' = "spawn_broadcast"
               /\ UNCHANGED mainResult
          ELSE /\ mainPc' = "returned"
               /\ mainResult' = "err"
               /\ shutdown_tx' = "dropped"
               /\ UNCHANGED discovery_publisher
    /\ UNCHANGED <<keyVars, clientVars, propVars, respondersEnded, lastPut,
                   orb_id, orb_name, orb_hw_version, orb_data, queryables,
                   command_subscriber,
                   broadcastPc, timerReady, published, selected,
                   commandsResult, ctrl_c_requested, lastCommand, lastQuery>>

\* tokio::spawn(broadcast_orb_id(..)); main then enters its select, which
\* registers the Ctrl+C listener and starts polling handle_commands.  The
\* broadcaster starts its first select with a fresh 1-second sleep.
SpawnBroadcast ==
    /\ mainPc = "spawn_broadcast"
    /\ broadcastPc' = "select"
    /\ timerReady' = FALSE
    /\ mainPc' = "select"
    /\ commandsResult' = "running"
    /\ UNCHANGED <<keyVars, clientVars, propVars, respondersEnded, lastPut,
                   mainResult, orb_id, orb_name, orb_hw_version, orb_data,
                   queryables, command_subscriber, discovery_publisher,
                   shutdown_tx, published, selected,
                   ctrl_c_requested, lastCommand, lastQuery>>

\* ------------------------------------------------------------------------
\* main: select over Ctrl+C and handle_commands, then the join
\* ------------------------------------------------------------------------

\* The environment sends SIGINT.  The listener is registered when main
\* enters its select; it stays installed for the rest of the process.
CtrlCRequest ==
    /\ mainPc \in {"select", "await_broadcast"}
    /\ ~ctrl_c_requested
    /\ ctrl_c_requested' = TRUE
    /\ UNCHANGED <<keyVars, clientVars, propVars, respondersEnded, lastPut,
                   mainPc, mainResult, orb_id, orb_name, orb_hw_version,
                   orb_data, queryables, command_subscriber,
                   discovery_publisher, shutdown_tx, broadcastPc, timerReady,
                   published, selected, commandsResult, lastCommand,
                   lastQuery>>

\* The Ctrl+C branch without the send.
MainCtrlC_NoSend ==
    /\ mainPc = "select"
    /\ ctrl_c_requested
    /\ selected' = "ctrl_c"
    /\ mainPc' = "await_broadcast"
    /\ UNCHANGED <<keyVars, clientVars, propVars, respondersEnded, lastPut,
                   mainResult, orb_id, orb_name, orb_hw_version,
                   orb_data, queryables, command_subscriber,
                   discovery_publisher, shutdown_tx, broadcastPc, timerReady,
                   published, commandsResult, ctrl_c_requested, lastCommand,
                   lastQuery>>

\* Branch `_ = signal::ctrl_c()` of main's select: send the shutdown signal.
\* handle_commands is dropped with the select.
MainCtrlC ==
    /\ mainPc = "select"
    /\ ctrl_c_requested
    /\ shutdown_tx' = "sent"
    /\ selected' = "ctrl_c"
    /\ mainPc' = "await_broadcast"
    /\ UNCHANGED <<keyVars, clientVars, propVars, respondersEnded, lastPut,
                   mainResult, orb_id, orb_name, orb_hw_version, orb_data,
                   queryables, command_subscriber, discovery_publisher,
                   broadcastPc, timerReady, published, commandsResult,
                   ctrl_c_requested, lastCommand, lastQuery>>

\* handle_commands receives one message and processes it.  An Err response
\* leaves the function through `?`, which completes branch
\* `res = handle_commands(..)` of main's select; shutdown_tx is not used on
\* that branch and stays alive in main.
HandleCommand ==
    /\ mainPc = "select"
    /\ commandsResult = "running"
    /\ \E chunk \in CommandChunks, output \in ShellOutputs({<<>>}) :
          LET key == Str_orb_prefix \o orb_id \o Str_command_seg \o chunk
              r == handle_commands_body(key, output)
          IN  /\ lastCommand' = [key |-> key, shell |-> r.shell,
                                 response |-> r.response]
              /\ IF r.response.ok
                 THEN UNCHANGED <<mainPc, selected, commandsResult>>
                 ELSE /\ commandsResult' = "err"
                      /\ selected' = "commands"
                      /\ mainPc' = "await_broadcast"
    /\ UNCHANGED <<keyVars, clientVars, propVars, respondersEnded, lastPut,
                   mainResult, orb_id, orb_name, orb_hw_version, orb_data,
                   queryables, command_subscriber, discovery_publisher,
                   shutdown_tx, broadcastPc, timerReady, published,
                   ctrl_c_requested, lastQuery>>

\* recv_async returns Err because the subscription channel is closed: the
\* while-let loop ends and handle_commands returns Ok(()).
CommandChannelClosed ==
    /\ mainPc = "select"
    /\ commandsResult = "running"
    /\ commandsResult' = "ok"
    /\ selected' = "commands"
    /\ mainPc' = "await_broadcast"
    /\ UNCHANGED <<keyVars, clientVars, propVars, respondersEnded, lastPut,
                   mainResult, orb_id, orb_name, orb_hw_version, orb_data,
                   queryables, command_subscriber, discovery_publisher,
                   shutdown_tx, broadcastPc, timerReady, published,
                   ctrl_c_requested, lastCommand, lastQuery>>

\* The join replaced by broadcast_task.abort(): main returns without waiting
\* for the broadcaster.
MainAwaitBroadcast_Abort ==
    /\ mainPc = "await_broadcast"
    /\ mainPc' = "returned"
    /\ mainResult' = "ok"
    /\ shutdown_tx' = IF shutdown_tx = "held" THEN "dropped" ELSE shutdown_tx
    /\ UNCHANGED <<keyVars, clientVars, propVars, respondersEnded, lastPut,
                   orb_id, orb_name, orb_hw_version, orb_data,
                   queryables, command_subscriber, discovery_publisher,
                   broadcastPc, timerReady, published, selected,
                   commandsResult, ctrl_c_requested, lastCommand, lastQuery>>

\* broadcast_task.await?  completes once the broadcaster has returned; main
\* then returns Ok(()) and its locals, shutdown_tx included, are dropped.
MainAwaitBroadcast ==
    /\ mainPc = "await_broadcast"
    /\ broadcastPc = "exited"
    /\ mainPc' = "returned"
    /\ mainResult' = "ok"
    /\ shutdown_tx' = IF shutdown_tx = "held" THEN "dropped" ELSE shutdown_tx
    /\ UNCHANGED <<keyVars, clientVars, propVars, respondersEnded, lastPut,
                   orb_id, orb_name, orb_hw_version, orb_data, queryables,
                   command_subscriber, discovery_publisher, broadcastPc,
                   timerReady, published, selected, commandsResult,
                   ctrl_c_requested, lastCommand, lastQuery>>

\* ------------------------------------------------------------------------
\* broadcast_orb_id
\* ------------------------------------------------------------------------

\* The 1-second sleep of the current select elapses.
TimerFire ==
    /\ broadcastPc = "select"
    /\ ~timerReady
    /\ published < MaxPublished
    /\ timerReady' = TRUE
    /\ UNCHANGED <<keyVars, clientVars, propVars, respondersEnded, lastPut,
                   mainPc, mainResult, orb_id, orb_name, orb_hw_version,
                   orb_data, queryables, command_subscriber,
                   discovery_publisher, shutdown_tx, broadcastPc, published,
                   selected, commandsResult, ctrl_c_requested, lastCommand,
                   lastQuery>>

\* Branch `_ = &mut shutdown_rx`: ready when the sender has sent or has been
\* dropped; break.
BroadcastSelectShutdown ==
    /\ broadcastPc = "select"
    /\ shutdown_tx \in {"sent", "dropped"}
    /\ broadcastPc' = "exited"
    /\ UNCHANGED <<keyVars, clientVars, propVars, respondersEnded, lastPut,
                   mainPc, mainResult, orb_id, orb_name, orb_hw_version,
                   orb_data, queryables, command_subscriber,
                   discovery_publisher, shutdown_tx, timerReady, published,
                   selected, commandsResult, ctrl_c_requested, lastCommand,
                   lastQuery>>

\* Branch `_ = time::sleep(..)`: ready when the sleep has elapsed; start
\* discovery_publisher.put(orb_id).  tokio::select! picks among the ready
\* branches at random, so this branch can be taken while the shutdown
\* branch is ready too.
BroadcastSelectTimer ==
    /\ broadcastPc = "select"
    /\ timerReady
    /\ broadcastPc' = "put"
    /\ timerReady' = FALSE
    /\ UNCHANGED <<keyVars, clientVars, propVars, respondersEnded, lastPut,
                   mainPc, mainResult, orb_id, orb_name, orb_hw_version,
                   orb_data, queryables, command_subscriber,
                   discovery_publisher, shutdown_tx, published,
                   selected, commandsResult, ctrl_c_requested, lastCommand,
                   lastQuery>>

\* The broadcaster with a `break` on a failed put.
BroadcastPutDone_BreakOnError ==
    /\ broadcastPc = "put"
    /\ \E ok \in BOOLEAN :
          /\ published' = IF ok THEN published + 1 ELSE published
          /\ lastPut' = IF ok THEN "ok" ELSE "err"
          /\ broadcastPc' =
                IF ~ok \/ shutdown_tx \in {"sent", "dropped"}
                THEN "exited" ELSE "select"
    /\ UNCHANGED <<keyVars, clientVars, propVars, respondersEnded,
                   mainPc, mainResult, orb_id, orb_name, orb_hw_version,
                   orb_data, queryables, command_subscriber,
                   discovery_publisher, shutdown_tx, timerReady,
                   selected, commandsResult, ctrl_c_requested, lastCommand,
                   lastQuery>>

\* put(..).await returns: the publish is observed on the discovery topic, or
\* the failure is logged.  The loop goes round in the same poll: the new
\* select finds its fresh sleep pending and takes the shutdown branch if
\* that one is ready.
BroadcastPutDone ==
    /\ broadcastPc = "put"
    /\ \E ok \in BOOLEAN :
          /\ published' = IF ok THEN published + 1 ELSE published
          /\ lastPut' = IF ok THEN "ok" ELSE "err"
    /\ broadcastPc' =
          IF shutdown_tx \in {"sent", "dropped"} THEN "exited" ELSE "select"
    /\ UNCHANGED <<keyVars, clientVars, propVars, respondersEnded,
                   mainPc, mainResult, orb_id, orb_name, orb_hw_version,
                   orb_data, queryables, command_subscriber,
                   discovery_publisher, shutdown_tx, timerReady,
                   selected, commandsResult, ctrl_c_requested, lastCommand,
                   lastQuery>>

\* ------------------------------------------------------------------------
\* handle_queries
\* ------------------------------------------------------------------------

\* The responder spawned for `responder` receives a query and replies.
HandleQuery ==
    /\ mainPc /= "returned"
    /\ \E responder \in queryables \ respondersEnded :
          \E key \in QueryKeyExprs(responder, orb_id) :
             LET reply == handle_queries_reply(orb_data, key)
             IN  lastQuery' = [responder |-> responder, key |-> reply.key,
                               payload |-> reply.payload]
    /\ UNCHANGED <<keyVars, clientVars, propVars, respondersEnded, lastPut,
                   mainPc, mainResult, orb_id, orb_name, orb_hw_version,
                   orb_data, queryables, command_subscriber,
                   discovery_publisher, shutdown_tx, broadcastPc, timerReady,
                   published, selected, commandsResult, ctrl_c_requested,
                   lastCommand>>

\* What lastQuery holds as payload when query.reply(..) returned Err.
ReplyFailed == <<"reply failed">>

\* handle_queries with `?` applied to the result of query.reply(..): a failed
\* reply returns from the task.
HandleQueryReplyFailed_Returns ==
    /\ mainPc /= "returned"
    /\ \E responder \in queryables \ respondersEnded :
          \E key \in QueryKeyExprs(responder, orb_id) :
             /\ lastQuery' = [responder |-> responder, key |-> key,
                              payload |-> ReplyFailed]
             /\ respondersEnded' = respondersEnded \cup {responder}
    /\ UNCHANGED <<keyVars, clientVars, propVars, lastPut,
                   mainPc, mainResult, orb_id, orb_name, orb_hw_version,
                   orb_data, queryables, command_subscriber,
                   discovery_publisher, shutdown_tx, broadcastPc, timerReady,
                   published, selected, commandsResult, ctrl_c_requested,
                   lastCommand>>

\* A responder receives a query and query.reply(..) returns Err: the failure
\* is logged and the loop goes on.
HandleQueryReplyFailed ==
    /\ mainPc /= "returned"
    /\ \E responder \in queryables \ respondersEnded :
          \E key \in QueryKeyExprs(responder, orb_id) :
             lastQuery' = [responder |-> responder, key |-> key,
                           payload |-> ReplyFailed]
    /\ UNCHANGED <<keyVars, clientVars, propVars, respondersEnded, lastPut,
                   mainPc, mainResult, orb_id, orb_name, orb_hw_version,
                   orb_data, queryables, command_subscriber,
                   discovery_publisher, shutdown_tx, broadcastPc, timerReady,
                   published, selected, commandsResult, ctrl_c_requested,
                   lastCommand>>

\* queryable.recv_async() returns Err in one responder: its channel is
\* closed, the while-let loop ends and the task returns Ok(()).  Nothing
\* joins the task.
QueryChannelClosed ==
    /\ mainPc /= "returned"
    /\ \E responder \in queryables \ respondersEnded :
          respondersEnded' = respondersEnded \cup {responder}
    /\ UNCHANGED <<keyVars, clientVars, propVars, lastPut,
                   mainPc, mainResult, orb_id, orb_name, orb_hw_version,
                   orb_data, queryables, command_subscriber,
                   discovery_publisher, shutdown_tx, broadcastPc, timerReady,
                   published, selected, commandsResult, ctrl_c_requested,
                   lastCommand, lastQuery>>

\* ------------------------------------------------------------------------
\* Specification of the node
\* ------------------------------------------------------------------------

Broadcaster ==
    \/ BroadcastSelectShutdown
    \/ BroadcastSelectTimer
    \/ BroadcastPutDone

Next ==
    \/ GetOrbId
    \/ GetOrbName
    \/ GetOrbHwVersion
    \/ OpenSession
    \/ DeclareQueryable
    \/ DeclareSubscriber
    \/ DeclarePublisher
    \/ SpawnBroadcast
    \/ CtrlCRequest
    \/ MainCtrlC
    \/ HandleCommand
    \/ CommandChannelClosed
    \/ MainAwaitBroadcast
    \/ TimerFire
    \/ BroadcastSelectShutdown
    \/ BroadcastSelectTimer
    \/ BroadcastPutDone
    \/ HandleQuery

Spec == Init /\ [][Next]_vars

\* The runtime polls a woken task: the broadcaster takes a ready branch of its
\* select and a returned put, and main's join completes once the broadcaster
\* has returned.
FairSpec ==
    Spec /\ WF_vars(Broadcaster) /\ WF_vars(MainAwaitBroadcast)

\* ------------------------------------------------------------------------
\* The node with transport faults on the query path: started with one
\* triple, from the point where the registry is built.
\* ------------------------------------------------------------------------

ResponderInit ==
    /\ mainPc = "declare_queryables"
    /\ mainResult = "none"
    /\ orb_id = <<"a">>
    /\ orb_name = <<"n">>
    /\ orb_hw_version = <<"h">>
    /\ orb_data = build_orb_data(<<"a">>, <<"n">>, <<"h">>)
    /\ queryables = {}
    /\ command_subscriber = <<>>
    /\ discovery_publisher = <<>>
    /\ shutdown_tx = "none"
    /\ broadcastPc = "none"
    /\ timerReady = FALSE
    /\ published = 0
    /\ selected = "none"
    /\ commandsResult = "none"
    /\ ctrl_c_requested = FALSE
    /\ lastCommand = NoCommand
    /\ lastQuery = NoQuery
    /\ respondersEnded = {}
    /\ lastPut = "none"
    /\ KeyIdle
    /\ ClientIdle
    /\ PropIdle

ResponderNext ==
    \/ DeclareQueryable
    \/ DeclareSubscriber
    \/ DeclarePublisher
    \/ SpawnBroadcast
    \/ CtrlCRequest
    \/ MainCtrlC
    \/ HandleCommand
    \/ CommandChannelClosed
    \/ MainAwaitBroadcast
    \/ TimerFire
    \/ BroadcastSelectShutdown
    \/ BroadcastSelectTimer
    \/ BroadcastPutDone
    \/ HandleQuery
    \/ HandleQueryReplyFailed
    \/ QueryChannelClosed

ResponderSpec == ResponderInit /\ [][ResponderNext]_vars

\* ------------------------------------------------------------------------
\* Property retrieval runs: lines 22-24 of main applied to bounded provider
\* outputs
\* ------------------------------------------------------------------------

\* What the provider can print: with a trailing newline, with surrounding
\* blanks, nothing, and with an inner blank.
PropStdouts ==
    {<<"a", "\n">>, <<" ", "b", " ">>, <<>>, <<"x", " ", "y", "\n">>}

PropInit ==
    /\ propPc = "get_id"
    /\ propOutputs \in [id : ShellOutputs(PropStdouts),
                        name : ShellOutputs(PropStdouts),
                        hw : ShellOutputs(PropStdouts)]
    /\ propValues = <<>>
    /\ NodeIdle
    /\ KeyIdle
    /\ ClientIdle

\* let orb_id = get_orb_property("orb-id", "UnknownOrb")?;
PropGetId ==
    /\ propPc = "get_id"
    /\ LET r == get_orb_property(propOutputs.id, Str_UnknownOrb)
       IN  IF r.ok
           THEN /\ propValues' = [id |-> r.val]
                /\ propPc' = "get_name"
           ELSE /\ propPc' = "aborted"
                /\ UNCHANGED propValues
    /\ UNCHANGED <<nodeVars, keyVars, clientVars, propOutputs>>

\* let orb_name = get_orb_property("cat /usr/persistent/orb-name", "DevOrb")?;
PropGetName ==
    /\ propPc = "get_name"
    /\ LET r == get_orb_property(propOutputs.name, Str_DevOrb)
       IN  IF r.ok
           THEN /\ propValues' = [id |-> propValues.id, name |-> r.val]
                /\ propPc' = "get_hw"
           ELSE /\ propPc' = "aborted"
                /\ UNCHANGED propValues
    /\ UNCHANGED <<nodeVars, keyVars, clientVars, propOutputs>>

\* let orb_hw_version = get_orb_property("cat .../hardware_version", ..)?;
\* startup goes on to open the session.
PropGetHwVersion ==
    /\ propPc = "get_hw"
    /\ LET r == get_orb_property(propOutputs.hw, Str_UnknownHWVersion)
       IN  IF r.ok
           THEN /\ propValues' = [id |-> propValues.id,
                                  name |-> propValues.name, hw |-> r.val]
                /\ propPc' = "started"
           ELSE /\ propPc' = "aborted"
                /\ UNCHANGED propValues
    /\ UNCHANGED <<nodeVars, keyVars, clientVars, propOutputs>>

PropNext ==
    \/ PropGetId
    \/ PropGetName
    \/ PropGetHwVersion

PropSpec == PropInit /\ [][PropNext]_vars

\* ------------------------------------------------------------------------
\* Key scheme runs: the parsers and to_key applied to bounded inputs
\* ------------------------------------------------------------------------

\* The six recognized tokens.
QueryTokens == {Str_name, Str_id, Str_hardware_version}

CommandTokens == {Str_reboot, Str_shutdown, Str_reset_gimbal}

\* Strings given to the parsers: the tokens, case variants, surrounding
\* whitespace, prefixes, suffixes, extensions and the empty string.
KeyTokenInputs ==
    QueryTokens \cup CommandTokens \cup
    {<<>>,
     <<"N", "a", "m", "e">>, <<"I", "D">>,
     <<"R", "e", "b", "o", "o", "t">>,
     <<"S", "H", "U", "T", "D", "O", "W", "N">>,
     <<" ">> \o Str_reboot, Str_id \o <<"\n">>, Str_name \o <<" ">>,
     <<"r", "e", "b", "o", "o">>, <<"e", "b", "o", "o", "t">>,
     <<"i">>, <<"d">>,
     <<"r", "e", "s", "e", "t">>, <<"g", "i", "m", "b", "a", "l">>,
     <<"x">> \o Str_reboot, Str_shutdown \o <<"2">>,
     <<"c", "o", "m", "m", "a", "n", "d">>,
     <<"c", "o", "m", "m", "a", "n", "d", "/">> \o Str_reboot}

\* Node ids given to to_key, some with `/` or the segment `command`.
KeyIds ==
    {<<"a">>, <<"b">>, <<"a", "/", "b">>, Str_id,
     <<"a">> \o <<"/", "c", "o", "m", "m", "a", "n", "d">>,
     <<"c", "o", "m", "m", "a", "n", "d">>}

KeyPairs == [kind : QueryKinds \cup CommandKinds, id : KeyIds]

\* to_key of either family.
ActionKind_to_key(kind, id) ==
    IF kind \in QueryKinds THEN Query_to_key(kind, id)
    ELSE Command_to_key(kind, id)

KeyInit ==
    /\ ksPc = "input"
    /\ ksToken \in KeyTokenInputs
    /\ ksA \in KeyPairs
    /\ ksB \in KeyPairs
    /\ ksParsed = <<>>
    /\ ksParsedKey = <<>>
    /\ ksKeyA = <<>>
    /\ ksKeyB = <<>>
    /\ NodeIdle
    /\ ClientIdle
    /\ PropIdle

\* Query::from_str(token) and Command::from_str(token), and for a recognized
\* token the key of the parsed kind, as the client computes it.
KeyParse ==
    /\ ksPc = "input"
    /\ LET q == Query_from_str(ksToken)
           c == Command_from_str(ksToken)
       IN  /\ ksParsed' = [query |-> q, command |-> c]
           /\ ksParsedKey' =
                 IF q.ok THEN Query_to_key(q.val, ksA.id)
                 ELSE IF c.ok THEN Command_to_key(c.val, ksA.id)
                 ELSE <<>>
    /\ ksPc' = "parsed"
    /\ UNCHANGED <<nodeVars, clientVars, propVars, ksToken, ksA, ksB, ksKeyA, ksKeyB>>

\* to_key of the two pairs.
KeyToKey ==
    /\ ksPc = "parsed"
    /\ ksKeyA' = ActionKind_to_key(ksA.kind, ksA.id)
    /\ ksKeyB' = ActionKind_to_key(ksB.kind, ksB.id)
    /\ ksPc' = "done"
    /\ UNCHANGED <<nodeVars, clientVars, propVars, ksToken, ksParsed, ksParsedKey, ksA, ksB>>

KeyNext ==
    \/ KeyParse
    \/ KeyToKey

KeySpec == KeyInit /\ [][KeyNext]_vars

\* ------------------------------------------------------------------------
\* The client (experiments/zenoh-orbcomm/src/bin/client.rs)
\* ------------------------------------------------------------------------

\* Durations of the client, in ticks of 500 ms.
\* timeout(Duration::from_millis(1000), subscriber.recv_async())
DiscoverTimeout == 2

\* let timeout_duration = Duration::from_secs(3);
DiscoverWindow == 6

\* timeout(Duration::from_millis(1000), replies.recv_async())
QueryTimeout == 2

\* Number of samples the discovery subscriber delivers in one run.
MaxReceived == 4

\* Number of replies the reply channel delivers in one run.
MaxReplies == 3

\* Payloads published on the discovery topic.
DiscoveryIds == {<<"A">>, <<"B">>, <<"C">>}

\* What reply.result() can be: a sample with a value, a sample with the
\* sentinel text of a responder, or an error.
ReplyKinds ==
    {[ok |-> TRUE, payload |-> <<"v">>],
     [ok |-> TRUE, payload |-> Str_no_such_resource],
     [ok |-> FALSE, payload |-> <<"e">>]}

\* <query_type> and <command_type> given on the command line.
ClientTypes ==
    QueryTokens \cup CommandTokens \cup
    {<<>>, <<"R", "e", "b", "o", "o", "t">>, <<" ">> \o Str_name,
     <<"f", "o", "o">>}

\* The command lines clap accepts.
ClientArgs ==
    {[cmd |-> "ping", id |-> <<>>, type |-> <<>>]}
        \cup [cmd : {"query", "command"}, id : {<<"a">>, <<"b">>},
              type : ClientTypes]

ClientInit ==
    /\ clPc = "open"
    /\ clArgs \in ClientArgs
    /\ clKey = <<>>
    /\ clOps = <<>>
    /\ clOutput = <<>>
    /\ clResult = "none"
    /\ clNow = 0
    /\ clWaitStart = 0
    /\ clClosed = FALSE
    /\ clReceived = <<>>
    /\ orb_ids = <<>>
    /\ clLastAt = 0
    /\ clDoneAt = 0
    /\ NodeIdle
    /\ KeyIdle
    /\ PropIdle

\* A call on the transport and whether it returned Ok.
TransportCall(op, key, payload, ok) ==
    [op |-> op, key |-> key, payload |-> payload, ok |-> ok]

\* A printed line: println! / eprintln! of a result, with the time.
Line(kind, arg, at) == [line |-> kind, arg |-> arg, at |-> at]

\* let session = zenoh::open(Config::default()).await?;  main opens the
\* session before it looks at the command line.
ClientOpenSession ==
    /\ clPc = "open"
    /\ \E ok \in BOOLEAN :
          /\ clOps' = Append(clOps, TransportCall("open", <<>>, <<>>, ok))
          /\ IF ok
             THEN /\ clPc' = "match"
                  /\ UNCHANGED clResult
             ELSE /\ clPc' = "done"
                  /\ clResult' = "err"
    /\ UNCHANGED <<nodeVars, keyVars, propVars, clArgs, clKey, clOutput,
                   clNow, clWaitStart, clClosed, clReceived, orb_ids,
                   clLastAt, clDoneAt>>

\* ---- discover_orbs ----

\* Vec::contains with only the last element compared.
orb_ids_contains_last(ids, id) ==
    ids /= <<>> /\ ids[Len(ids)] = id

\* orb_ids.contains(&orb_id)
orb_ids_contains(ids, id) ==
    \E i \in 1..Len(ids) : ids[i] = id

\* The loop condition with the per-receive timeout in place of the window.
discover_loop_condition_timeout(elapsed) ==
    elapsed < DiscoverTimeout

\* while start_time.elapsed() < timeout_duration
discover_loop_condition(elapsed) ==
    elapsed < DiscoverWindow

\* The end of one iteration of the loop of discover_orbs at time clNow, with
\* `ids` and `out` the Vec and the output after the iteration: the next
\* timeout starts, or the loop ends, "No orbs found!" is printed for an empty
\* Vec and main returns Ok.
DiscoverIterationEnd(ids, out) ==
    /\ orb_ids' = ids
    /\ IF discover_loop_condition(clNow)
       THEN /\ clWaitStart' = clNow
            /\ clOutput' = out
            /\ UNCHANGED <<clPc, clResult, clDoneAt>>
       ELSE /\ clPc' = "done"
            /\ clResult' = "ok"
            /\ clDoneAt' = clNow
            /\ clOutput' = IF ids = <<>>
                           THEN Append(out, Line("no_orbs", <<>>, clNow))
                           ELSE out
            /\ UNCHANGED clWaitStart

\* Commands::Ping: declare_subscriber("orb/id").expect(..), take start_time
\* and enter the loop.
DiscoverSubscribe ==
    /\ clPc = "match"
    /\ clArgs.cmd = "ping"
    /\ \E ok \in BOOLEAN :
          /\ clOps' = Append(clOps,
                             TransportCall("subscribe", Str_discovery, <<>>, ok))
          /\ IF ok
             THEN /\ clPc' = "listen"
                  /\ UNCHANGED clResult
             ELSE /\ clPc' = "done"
                  /\ clResult' = "panic"
    /\ clNow' = 0
    /\ clWaitStart' = 0
    /\ UNCHANGED <<nodeVars, keyVars, propVars, clArgs, clKey, clOutput,
                   clClosed, clReceived, orb_ids, clLastAt, clDoneAt>>

\* timeout(..) returns Ok(Ok(sample)): a new id is printed and pushed.  A
\* sample that is ready when the deadline is reached is still delivered.
ListenerRecv ==
    /\ clPc = "listen"
    /\ ~clClosed
    /\ Len(clReceived) < MaxReceived
    /\ clNow - clWaitStart <= DiscoverTimeout
    /\ \E id \in DiscoveryIds :
          /\ clReceived' = Append(clReceived, id)
          /\ IF orb_ids_contains(orb_ids, id)
             THEN DiscoverIterationEnd(orb_ids, clOutput)
             ELSE DiscoverIterationEnd(
                      Append(orb_ids, id),
                      Append(clOutput, Line("discovered", id, clNow)))
    /\ UNCHANGED <<nodeVars, keyVars, propVars, clArgs, clKey, clOps, clNow,
                   clClosed, clLastAt>>

\* timeout(..) returns Err(Elapsed): nothing arrived for the per-receive
\* timeout.
ListenerTimeout ==
    /\ clPc = "listen"
    /\ ~clClosed
    /\ clNow - clWaitStart = DiscoverTimeout
    /\ DiscoverIterationEnd(orb_ids, clOutput)
    /\ UNCHANGED <<nodeVars, keyVars, propVars, clArgs, clKey, clOps, clNow,
                   clClosed, clReceived, clLastAt>>

\* timeout(..) returns Ok(Err(_)): the subscription channel is closed, and
\* recv_async returns at once from now on.
ListenerRecvErr ==
    /\ clPc = "listen"
    /\ clClosed' = TRUE
    /\ DiscoverIterationEnd(orb_ids, clOutput)
    /\ UNCHANGED <<nodeVars, keyVars, propVars, clArgs, clKey, clOps, clNow,
                   clReceived, clLastAt>>

\* ---- perform_query ----

\* Commands::Query: Query::from_str, then to_key, or the rejection.
ClientQuery ==
    /\ clPc = "match"
    /\ clArgs.cmd = "query"
    /\ LET r == Query_from_str(clArgs.type)
       IN  IF r.ok
           THEN /\ clKey' = Query_to_key(r.val, clArgs.id)
                /\ clPc' = "get"
                /\ UNCHANGED <<clOutput, clResult>>
           ELSE /\ clOutput' = Append(clOutput,
                                      Line("invalid_query_type", clArgs.type, 0))
                /\ clPc' = "done"
                /\ clResult' = "ok"
                /\ UNCHANGED clKey
    /\ UNCHANGED <<nodeVars, keyVars, propVars, clArgs, clOps, clNow,
                   clWaitStart, clClosed, clReceived, orb_ids, clLastAt,
                   clDoneAt>>

\* let replies = session.get(key).await?;
QueryGet ==
    /\ clPc = "get"
    /\ \E ok \in BOOLEAN :
          /\ clOps' = Append(clOps, TransportCall("get", clKey, <<>>, ok))
          /\ IF ok
             THEN /\ clPc' = "collect"
                  /\ UNCHANGED clResult
             ELSE /\ clPc' = "done"
                  /\ clResult' = "err"
    /\ clNow' = 0
    /\ clWaitStart' = 0
    /\ UNCHANGED <<nodeVars, keyVars, propVars, clArgs, clKey, clOutput,
                   clClosed, clReceived, orb_ids, clLastAt, clDoneAt>>

\* The reply loop without a new timeout after a reply.
QueryReply_NoRestart ==
    /\ clPc = "collect"
    /\ ~clClosed
    /\ Len(clReceived) < MaxReplies
    /\ clNow - clWaitStart <= QueryTimeout
    /\ \E reply \in ReplyKinds :
          /\ clReceived' = Append(clReceived, reply)
          /\ clOutput' =
                IF reply.ok
                THEN Append(clOutput, Line("received", reply.payload, clNow))
                ELSE clOutput
    /\ clLastAt' = clNow
    /\ UNCHANGED <<nodeVars, keyVars, propVars, clArgs, clKey, clOps, clNow,
                   clWaitStart, clClosed, clPc, clResult, orb_ids, clDoneAt>>

\* timeout(..) returns Ok(Ok(reply)): the reply is printed if its result is
\* a sample, and the loop starts a new timeout.
QueryReply ==
    /\ clPc = "collect"
    /\ ~clClosed
    /\ Len(clReceived) < MaxReplies
    /\ clNow - clWaitStart <= QueryTimeout
    /\ \E reply \in ReplyKinds :
          /\ clReceived' = Append(clReceived, reply)
          /\ clOutput' =
                IF reply.ok
                THEN Append(clOutput, Line("received", reply.payload, clNow))
                ELSE clOutput
    /\ clWaitStart' = clNow
    /\ clLastAt' = clNow
    /\ UNCHANGED <<nodeVars, keyVars, propVars, clArgs, clKey, clOps, clNow,
                   clClosed, clPc, clResult, orb_ids, clDoneAt>>

\* The reply loop giving up one tick before the timeout.
QueryTimeout_Early ==
    /\ clPc = "collect"
    /\ clNow - clWaitStart >= QueryTimeout - 1
    /\ clPc' = "done"
    /\ clResult' = "ok"
    /\ clDoneAt' = clNow
    /\ UNCHANGED <<nodeVars, keyVars, propVars, clArgs, clKey, clOps,
                   clOutput, clNow, clWaitStart, clClosed, clReceived,
                   orb_ids, clLastAt>>

\* timeout(..) returns Err(Elapsed): the while-let ends and perform_query
\* returns Ok(()).
QueryCollectTimeout ==
    /\ clPc = "collect"
    /\ clNow - clWaitStart = QueryTimeout
    /\ clPc' = "done"
    /\ clResult' = "ok"
    /\ clDoneAt' = clNow
    /\ UNCHANGED <<nodeVars, keyVars, propVars, clArgs, clKey, clOps,
                   clOutput, clNow, clWaitStart, clClosed, clReceived,
                   orb_ids, clLastAt>>

\* timeout(..) returns Ok(Err(_)): the reply channel is closed; the
\* while-let ends and perform_query returns Ok(()).
QueryRecvErr ==
    /\ clPc = "collect"
    /\ clClosed' = TRUE
    /\ clPc' = "done"
    /\ clResult' = "ok"
    /\ clDoneAt' = clNow
    /\ UNCHANGED <<nodeVars, keyVars, propVars, clArgs, clKey, clOps,
                   clOutput, clNow, clWaitStart, clReceived, orb_ids,
                   clLastAt>>

\* ---- perform_command ----

\* Commands::Command: Command::from_str, then to_key, or the rejection.
ClientCommand ==
    /\ clPc = "match"
    /\ clArgs.cmd = "command"
    /\ LET r == Command_from_str(clArgs.type)
       IN  IF r.ok
           THEN /\ clKey' = Command_to_key(r.val, clArgs.id)
                /\ clPc' = "put"
                /\ UNCHANGED <<clOutput, clResult>>
           ELSE /\ clOutput' = Append(clOutput,
                                      Line("invalid_command_type", clArgs.type, 0))
                /\ clPc' = "done"
                /\ clResult' = "ok"
                /\ UNCHANGED clKey
    /\ UNCHANGED <<nodeVars, keyVars, propVars, clArgs, clOps, clNow,
                   clWaitStart, clClosed, clReceived, orb_ids, clLastAt,
                   clDoneAt>>

\* perform_command with a second put after a failed one.
CommandPut_Retry ==
    /\ clPc = "put"
    /\ \E ok \in BOOLEAN :
          /\ clOps' = IF ok
                      THEN Append(clOps, TransportCall("put", clKey, <<>>, TRUE))
                      ELSE clOps \o <<TransportCall("put", clKey, <<>>, FALSE),
                                      TransportCall("put", clKey, <<>>, TRUE)>>
          /\ clResult' = "ok"
    /\ clPc' = "done"
    /\ UNCHANGED <<nodeVars, keyVars, propVars, clArgs, clKey, clOutput,
                   clNow, clWaitStart, clClosed, clReceived, orb_ids,
                   clLastAt, clDoneAt>>

\* session.put(command_key, "").await?;  Ok(())
CommandPut ==
    /\ clPc = "put"
    /\ \E ok \in BOOLEAN :
          /\ clOps' = Append(clOps, TransportCall("put", clKey, <<>>, ok))
          /\ clResult' = IF ok THEN "ok" ELSE "err"
    /\ clPc' = "done"
    /\ UNCHANGED <<nodeVars, keyVars, propVars, clArgs, clKey, clOutput,
                   clNow, clWaitStart, clClosed, clReceived, orb_ids,
                   clLastAt, clDoneAt>>

\* ---- time ----

\* Half a second passes while the client waits in timeout(..); the timeout
\* fires when its duration has passed.
ClientTick ==
    /\ \/ clPc = "listen" /\ clNow - clWaitStart < DiscoverTimeout
       \/ clPc = "collect" /\ clNow - clWaitStart < QueryTimeout
    /\ clNow' = clNow + 1
    /\ UNCHANGED <<nodeVars, keyVars, propVars, clPc, clArgs, clKey, clOps,
                   clOutput, clResult, clWaitStart, clClosed, clReceived,
                   orb_ids, clLastAt, clDoneAt>>

ClientNext ==
    \/ ClientOpenSession
    \/ DiscoverSubscribe
    \/ ListenerRecv
    \/ ListenerTimeout
    \/ ListenerRecvErr
    \/ ClientQuery
    \/ QueryGet
    \/ QueryReply
    \/ QueryCollectTimeout
    \/ QueryRecvErr
    \/ ClientCommand
    \/ CommandPut
    \/ ClientTick

ClientSpec == ClientInit /\ [][ClientNext]_vars

\* The steps the client takes by itself once they are possible; a closed
\* channel makes recv_async return at once.
ClientProgram ==
    \/ ClientOpenSession
    \/ DiscoverSubscribe
    \/ ListenerTimeout
    \/ (clClosed /\ ListenerRecvErr)
    \/ ClientQuery
    \/ QueryGet
    \/ QueryCollectTimeout
    \/ ClientCommand
    \/ CommandPut

\* The runtime runs the client's task, and time passes.
FairClientSpec ==
    ClientSpec /\ WF_vars(ClientProgram) /\ WF_vars(ClientTick)

\* ------------------------------------------------------------------------
\* Properties
\* ------------------------------------------------------------------------

\* The final path segment of a key: what follows its last `/`.
RECURSIVE LastSegment(_)
LastSegment(s) ==
    IF s = <<>> \/ s[Len(s)] = "/" THEN <<>>
    ELSE LastSegment(SubSeq(s, 1, Len(s) - 1)) \o <<s[Len(s)]>>

\* C1: if the dispatcher loop ends before any termination request, the
\* stop signal reaches the broadcaster, the broadcaster exits and main
\* eventually returns.
C1_DispatcherFirstReturns ==
    (selected = "commands" /\ ~ctrl_c_requested)
        ~> (shutdown_tx = "sent" /\ broadcastPc = "exited"
            /\ mainPc = "returned")

\* C2: once the Ctrl+C branch of main's select has run, the stop signal has
\* been sent, and the broadcaster eventually exits its loop and main
\* eventually returns.
C2_CtrlCShutdown ==
    /\ [](selected = "ctrl_c" => shutdown_tx = "sent")
    /\ (selected = "ctrl_c") ~> (broadcastPc = "exited" /\ mainPc = "returned")

C2_Witness ==
    /\ selected = "ctrl_c"
    /\ commandsResult = "running"
    /\ published > 0
    /\ broadcastPc = "exited"
    /\ mainPc = "returned"

\* C3: main never returns while the broadcaster's loop is running, and the
\* broadcaster's loop never exits before a termination request or the end of
\* the dispatcher loop.
C3_TeardownOrder ==
    /\ mainPc = "returned" => broadcastPc \notin {"select", "put"}
    /\ broadcastPc = "exited" =>
          (ctrl_c_requested \/ commandsResult \in {"ok", "err"})

C3_Witness ==
    /\ mainPc = "returned"
    /\ mainResult = "ok"
    /\ broadcastPc = "exited"

\* C4: no publish is observed on the discovery topic once the stop signal
\* has been sent.
C4_NoPublishAfterStop ==
    [][shutdown_tx = "sent" => published' = published]_vars

\* C5: a shell action that fails does not end the dispatcher: after a
\* failed action the dispatcher loop has not returned an error.
C5_FailureKeepsDispatcher ==
    ~lastCommand.response.ok => commandsResult /= "err"

\* C6: a message whose final path segment is not exactly reboot, shutdown
\* or reset_gimbal gets the text Error: Unknown command '<key>' and runs no
\* shell command.
C6_UnknownSegmentRejected ==
    (lastCommand.key /= <<>>
        /\ LastSegment(lastCommand.key) \notin CommandTokens)
    => /\ lastCommand.shell = <<>>
       /\ lastCommand.response =
             Ok(Str_unknown_command \o lastCommand.key \o Str_quote)

\* C7: a message on Command::to_key(c, id) makes the dispatcher of node id
\* run "sudo reboot" for Reboot, "shutdown now" for Shutdown, and nothing
\* for ResetGimbal, whose response is the success text; one message runs at
\* most one shell command.
C7_DispatcherTable ==
    /\ Len(lastCommand.shell) <= 1
    /\ lastCommand.key = Command_to_key("Reboot", orb_id) =>
          lastCommand.shell = <<Str_sudo_reboot>>
    /\ lastCommand.key = Command_to_key("Shutdown", orb_id) =>
          lastCommand.shell = <<Str_shutdown_now>>
    /\ lastCommand.key = Command_to_key("ResetGimbal", orb_id) =>
          /\ lastCommand.shell = <<>>
          /\ lastCommand.response = Ok(Str_reset_ok)

C7_Witness ==
    /\ lastCommand.key = Command_to_key("Shutdown", orb_id)
    /\ lastCommand.shell = <<Str_shutdown_now>>
    /\ lastCommand.response.ok
    /\ orb_id = Str_UnknownOrb

\* C8: each of the six tokens parses to the kind whose key ends in exactly
\* that token, in its own family only; every other string fails to parse.
C8_ParseRoundTrip ==
    ksPc \in {"parsed", "done"} =>
        /\ ksToken \in QueryTokens =>
              /\ ksParsed.query.ok
              /\ ~ksParsed.command.ok
              /\ ksParsedKey = Query_to_key(ksParsed.query.val, ksA.id)
              /\ LastSegment(ksParsedKey) = ksToken
        /\ ksToken \in CommandTokens =>
              /\ ksParsed.command.ok
              /\ ~ksParsed.query.ok
              /\ ksParsedKey = Command_to_key(ksParsed.command.val, ksA.id)
              /\ LastSegment(ksParsedKey) = ksToken
        /\ ksToken \notin QueryTokens \cup CommandTokens =>
              /\ ~ksParsed.query.ok
              /\ ~ksParsed.command.ok

C8_Witness ==
    /\ ksPc = "parsed"
    /\ ksToken = Str_reset_gimbal
    /\ ksParsed.command = Ok("ResetGimbal")
    /\ ksA.id = <<"a", "/", "b">>

\* C9: to_key gives different keys to different (kind, id) pairs with
\* non-empty ids, across both families, and never the discovery topic.
C9_ToKeyInjective ==
    ksPc = "done" =>
        /\ (ksA /= ksB /\ ksA.id /= <<>> /\ ksB.id /= <<>>) => ksKeyA /= ksKeyB
        /\ ksKeyA /= Str_discovery
        /\ ksKeyB /= Str_discovery

C9_Witness ==
    /\ ksPc = "done"
    /\ ksA = [kind |-> "Name",
              id |-> <<"a", "/", "c", "o", "m", "m", "a", "n", "d">>]
    /\ ksB = [kind |-> "Reboot", id |-> <<"a">>]
    /\ ksKeyA /= ksKeyB

\* C10: a responder answers a query on a registered key with the registered
\* value and a query on any other key with Error: no such resource.
C10_RegistryRoundTrip ==
    lastQuery.responder /= <<>> =>
        /\ lastQuery.key = Query_to_key("Id", orb_id) =>
              lastQuery.payload = orb_id
        /\ lastQuery.key = Query_to_key("Name", orb_id) =>
              lastQuery.payload = orb_name
        /\ lastQuery.key = Query_to_key("HardwareVersion", orb_id) =>
              lastQuery.payload = orb_hw_version
        /\ lastQuery.key \notin {Query_to_key(q, orb_id) : q \in QueryKinds} =>
              lastQuery.payload = Str_no_such_resource

C10_Witness ==
    /\ lastQuery.key = Query_to_key("Name", orb_id)
    /\ lastQuery.payload = orb_name
    /\ orb_name = <<"n">>
    /\ orb_id = <<"b">>

\* C18: a failed put leaves the broadcaster running (the loop goes on to the
\* next interval), and the loop exits only after the coordinator has sent the
\* stop signal.
C18_BroadcasterPersistence ==
    /\ [](broadcastPc = "exited" => shutdown_tx = "sent")
    /\ [][(broadcastPc = "put" /\ broadcastPc' /= "put"
             /\ published' = published /\ shutdown_tx = "held")
          => (broadcastPc' = "select" /\ lastPut' = "err")]_vars

C18_Witness ==
    /\ lastPut = "err"
    /\ published = 0
    /\ broadcastPc = "put"
    /\ shutdown_tx = "held"

\* C19: a failed reply does not end a responder; a responder that has ended
\* stays ended and answers no more; and the end of one responder changes
\* nothing else: the other responders, main, the dispatcher and the
\* broadcaster are as they were, and no stop signal is sent.
C19_ResponderIsolation ==
    /\ [][respondersEnded \subseteq respondersEnded']_vars
    /\ [][lastQuery' /= lastQuery =>
             /\ lastQuery'.responder \notin respondersEnded
             /\ respondersEnded' = respondersEnded]_vars
    /\ [][respondersEnded' /= respondersEnded =>
             /\ Cardinality(respondersEnded') = Cardinality(respondersEnded) + 1
             /\ UNCHANGED <<mainPc, mainResult, selected, commandsResult,
                            shutdown_tx, broadcastPc, timerReady, published,
                            queryables, lastQuery, lastCommand>>]_vars

C19_Witness ==
    /\ Cardinality(respondersEnded) = 2
    /\ lastQuery.responder \in queryables \ respondersEnded
    /\ lastQuery.payload = ReplyFailed
    /\ mainPc = "select"
    /\ broadcastPc = "put"

\* The value of a provider output: on success its stdout without the
\* surrounding whitespace, otherwise the default.
IsProviderValue(v, output, default) ==
    IF output.kind = "success"
    THEN \E i \in 1..(Len(output.stdout) + 1), j \in 0..Len(output.stdout) :
            /\ v = SubSeq(output.stdout, i, j)
            /\ \A k \in 1..Len(output.stdout) :
                  (k < i \/ k > j) => IsWhitespace(output.stdout[k])
            /\ v /= <<>> => (~IsWhitespace(v[1]) /\ ~IsWhitespace(v[Len(v)]))
    ELSE v = default

\* C17: no provider outcome aborts startup, and each of the three values is
\* the provider's value on success and its own default otherwise, whatever
\* the other two calls did.
C17_PropertiesBestEffort ==
    /\ propPc /= "aborted"
    /\ propPc \in {"get_name", "get_hw", "started"} =>
          IsProviderValue(propValues.id, propOutputs.id, Str_UnknownOrb)
    /\ propPc \in {"get_hw", "started"} =>
          IsProviderValue(propValues.name, propOutputs.name, Str_DevOrb)
    /\ propPc = "started" =>
          IsProviderValue(propValues.hw, propOutputs.hw, Str_UnknownHWVersion)

C17_Witness ==
    /\ propPc = "started"
    /\ propOutputs.id.kind = "status"
    /\ propValues.id = Str_UnknownOrb
    /\ propOutputs.name = [kind |-> "success", stdout |-> <<" ", "b", " ">>]
    /\ propValues.name = <<"b">>
    /\ propOutputs.hw.kind = "spawn_error"
    /\ propValues.hw = Str_UnknownHWVersion

\* The distinct elements of a sequence, in the order of their first
\* occurrence.
RECURSIVE FirstSeen(_)
FirstSeen(seq) ==
    IF seq = <<>> THEN <<>>
    ELSE LET front == FirstSeen(SubSeq(seq, 1, Len(seq) - 1))
             last == seq[Len(seq)]
         IN  IF \E i \in 1..Len(front) : front[i] = last
             THEN front
             ELSE Append(front, last)

\* The arguments of the printed lines of one kind, in order.
Printed(kind) ==
    LET lines == SelectSeq(clOutput, LAMBDA l : l.line = kind)
    IN  [i \in 1..Len(lines) |-> lines[i].arg]

\* The payloads of the replies whose result is a sample, in order.
SamplePayloads ==
    LET samples == SelectSeq(clReceived, LAMBDA r : r.ok)
    IN  [i \in 1..Len(samples) |-> samples[i].payload]

\* discover_orbs has run its loop to the end.
ListenerDone ==
    clArgs.cmd = "ping" /\ clPc = "done" /\ clResult /= "panic"
        /\ Len(clOps) = 2

\* perform_query has got its reply channel and has run its loop to the end.
QueryDone ==
    clArgs.cmd = "query" /\ clPc = "done" /\ Len(clOps) = 2 /\ clOps[2].ok

\* C11: at every moment of a discovery run the ids reported are the distinct
\* ids received so far, each once, in first-seen order; a run that received
\* nothing prints "No orbs found!" and returns Ok, and no other run prints it.
C11_ListenerDedup ==
    clArgs.cmd = "ping" =>
        /\ Printed("discovered") = FirstSeen(clReceived)
        /\ orb_ids = FirstSeen(clReceived)
        /\ ListenerDone =>
              /\ clResult = "ok"
              /\ clReceived = <<>> => Printed("no_orbs") = <<<<>>>>
              /\ clReceived /= <<>> => Printed("no_orbs") = <<>>

C11_Witness ==
    /\ ListenerDone
    /\ clReceived = <<<<"A">>, <<"B">>, <<"A">>, <<"C">>>>
    /\ Printed("discovered") = <<<<"A">>, <<"B">>, <<"C">>>>

\* C12: the listener never ends before the window has elapsed, never starts
\* a wait once it has, and always ends: with no message, with messages up to
\* the boundary and with a closed channel.
C12_ListenerTermination ==
    /\ [](ListenerDone => clDoneAt >= DiscoverWindow)
    /\ [](clPc = "listen" => clWaitStart < DiscoverWindow)
    /\ (clPc = "listen") ~> (clPc = "done")

C12_Witness ==
    /\ ListenerDone
    /\ clClosed
    /\ clReceived = <<>>
    /\ clDoneAt = DiscoverWindow

\* C13 as claimed: a query run reports every reply that carries a sample, in
\* arrival order, returns Ok, and ends exactly one timeout after the last
\* reply (after the get, with no reply).
C13_QueryCollection ==
    QueryDone =>
        /\ clResult = "ok"
        /\ Printed("received") = SamplePayloads
        /\ clDoneAt = clLastAt + QueryTimeout

\* C13, amended: as above, but the run ends at once when the reply channel
\* is closed, and one timeout after the last reply otherwise.
C13_QueryCollectionOrClosed ==
    QueryDone =>
        /\ clResult = "ok"
        /\ Printed("received") = SamplePayloads
        /\ ~clClosed => clDoneAt = clLastAt + QueryTimeout
        /\ clClosed => clDoneAt <= clLastAt + QueryTimeout

C13_Witness ==
    /\ QueryDone
    /\ ~clClosed
    /\ Len(clReceived) = 3
    /\ Printed("received") = <<<<"v">>, <<"v">>, <<"v">>>>
    /\ clLastAt = 3
    /\ clDoneAt = 3 + QueryTimeout

\* C14 as claimed: the reply loop ends only when a full timeout has passed
\* since the last reply.
C14_QueryStopsOnTimeoutOnly ==
    [][(clPc = "collect" /\ clPc' = "done") =>
          (clWaitStart = clLastAt /\ clNow - clLastAt = QueryTimeout)]_vars

\* C14, amended: the reply loop ends only when a full timeout has passed
\* since the last reply or when the reply channel is closed; while replies
\* keep arriving within the timeout it goes on, whatever the total duration.
C14_QueryStopsOnTimeoutOrClosed ==
    [][(clPc = "collect" /\ clPc' = "done") =>
          \/ clClosed'
          \/ (clWaitStart = clLastAt /\ clNow - clLastAt = QueryTimeout)]_vars

C14_Witness ==
    /\ QueryDone
    /\ ~clClosed
    /\ Len(clReceived) = 3
    /\ clDoneAt >= 4 * QueryTimeout

\* C15: for a recognized command token the client makes, after opening the
\* session, exactly one call on the transport: a put of the empty payload on
\* Command::to_key(kind, id); it prints no result, and returns Ok when the
\* put returns Ok.
C15_CommandIssuer ==
    (clArgs.cmd = "command" /\ clPc = "done" /\ clOps[1].ok
        /\ clArgs.type \in CommandTokens)
    => /\ Len(clOps) = 2
       /\ clOps[2].op = "put"
       /\ clOps[2].payload = <<>>
       /\ \E c \in CommandKinds :
             /\ LastSegment(Command_to_key(c, clArgs.id)) = clArgs.type
             /\ clOps[2].key = Command_to_key(c, clArgs.id)
       /\ clResult = (IF clOps[2].ok THEN "ok" ELSE "err")
       /\ clOutput = <<>>

C15_Witness ==
    /\ clArgs = [cmd |-> "command", id |-> <<"b">>, type |-> Str_reset_gimbal]
    /\ clPc = "done"
    /\ Len(clOps) = 2
    /\ clOps[2].ok
    /\ clResult = "ok"

\* C16: when the query type or the command type is not a recognized token,
\* the client has made no call on the transport.
C16_LocalRejection ==
    (Printed("invalid_query_type") /= <<>>
        \/ Printed("invalid_command_type") /= <<>>)
    => clOps = <<>>

\* C20: every reply the issuer receives is printed.
C20_EveryReplyPrinted ==
    clArgs.cmd = "query" => Len(Printed("received")) = Len(clReceived)

\* C21: no id is reported at an elapsed time greater than the window.
C21_NoReportAfterWindow ==
    clArgs.cmd = "ping" =>
        \A i \in 1..Len(clOutput) :
            clOutput[i].line = "discovered" => clOutput[i].at <= DiscoverWindow

\* The node answers on its three registry keys and listens for its commands.
NodeReady ==
    /\ queryables = {Query_to_key(q, orb_id) : q \in QueryKinds}
    /\ command_subscriber =
           Str_orb_prefix \o orb_id \o Str_command_seg \o Str_star

====
